---- MODULE Spec2Model ----
(***************************************************************************)
(* Direction-optimizing BFS of                                             *)
(* src/gms/representations/graphs/log_graph/kbit_bfs.cc: InitParent,       *)
(* TDStep, BUStep, QueueToBitmap, BitmapToQueue, DOBFS and BFSVerifier.    *)
(* The OpenMP workers of TDStep and BUStep are interleaved step by step;   *)
(* every access to the shared parent array, the shared queue and the       *)
(* bitmaps is a step of its own.                                           *)
(***************************************************************************)
EXTENDS Integers, Sequences, FiniteSets, TLC

\* ------------------------------------------------------------------ bounds
\* number of vertices of the enumerated graphs
NumNodes == 3
\* largest number of arcs of the enumerated directed graphs
MaxArcs == 3
\* largest number of edges of the enumerated undirected graphs
MaxEdges == 3
\* number of OpenMP worker threads
NumWorkers == 2
\* cells of the traversal's result a candidate parent array may differ in
MaxCorrupt == 1
\* a candidate array differs in a cell below MaxCell, by a value below MaxCell
MaxCell == 8
\* the source is one of the first MaxSource vertex ids
MaxSource == 6

\* ------------------------------------------------------- program constants
\* DOBFS's default alpha and beta
DefaultAlpha == 15
DefaultBeta == 18
\* schedule(dynamic, 1024) of BUStep
ChunkSize == 1024
\* bits of one Bitmap word (gapbs bitmap.h, kBitsPerWord)
BitsPerWord == 64

\* the alpha and beta a caller passes: 1 keeps the traversal top-down,
\* 2 mixes the directions, the defaults make bottom-up eligible on every
\* graph with fewer than 15 arcs
Alphas == {1, 2, DefaultAlpha}
Betas == {1, DefaultBeta}

Workers == 1..NumWorkers

\* ------------------------------------------------------------------- graphs
\* My_Graph: num_nodes() and, per vertex, the neighbour list that
\* ITERATE_NEIGHBOURHOOD enumerates (ascending, no duplicates, no loops).
RECURSIVE SortedSeq(_)
SortedSeq(S) ==
  IF S = {} THEN << >>
  ELSE LET m == CHOOSE x \in S : \A y \in S : x <= y
       IN << m >> \o SortedSeq(S \ {m})

GraphOf(nn, arcs) ==
  [n |-> nn,
   adj |-> [u \in 0..(nn - 1) |-> SortedSeq({v \in 0..(nn - 1) : << u, v >> \in arcs})]]

AllArcs(nn) == {a \in (0..(nn - 1)) \X (0..(nn - 1)) : a[1] # a[2]}
AllEdges(nn) == {a \in (0..(nn - 1)) \X (0..(nn - 1)) : a[1] < a[2]}

\* an undirected graph holds both arcs of every edge
BothWays(edges) == edges \cup {<< e[2], e[1] >> : e \in edges}

\* every directed graph on NumNodes vertices with at most MaxArcs arcs
EnumGraphs ==
  {GraphOf(NumNodes, arcs) :
     arcs \in {A \in SUBSET AllArcs(NumNodes) : Cardinality(A) <= MaxArcs}}

\* every undirected graph on NumNodes vertices with at most MaxEdges edges
EnumSymGraphs ==
  {GraphOf(NumNodes, BothWays(edges)) :
     edges \in {E \in SUBSET AllEdges(NumNodes) : Cardinality(E) <= MaxEdges}}

\* the graphs of the concrete scenarios: the directed path and star, the
\* single vertex, the undirected triangle
Path4 == GraphOf(4, {<< 0, 1 >>, << 1, 2 >>, << 2, 3 >>})
Star6 == GraphOf(6, {<< 0, 1 >>, << 0, 2 >>, << 0, 3 >>, << 0, 4 >>, << 0, 5 >>})
Single1 == GraphOf(1, {})
Triangle3 == GraphOf(3, BothWays({<< 0, 1 >>, << 1, 2 >>, << 0, 2 >>}))
\* two undirected components, 0-1 and 2-3-4, and the isolated vertex 5
TwoParts6 == GraphOf(6, BothWays({<< 0, 1 >>, << 2, 3 >>, << 3, 4 >>}))
\* a directed diamond: 1 and 2 both lead to 3
Diamond4 == GraphOf(4, {<< 0, 1 >>, << 0, 2 >>, << 1, 3 >>, << 2, 3 >>})
\* undirected 0-1 and 0-2, and the one-way arcs 1->3 and 3->2
Cross4 == GraphOf(4, BothWays({<< 0, 1 >>, << 0, 2 >>}) \cup {<< 1, 3 >>, << 3, 2 >>})
\* the undirected cycle 0-1-2-3-0 and the undirected path 0-1-2-3-4
Cycle4 == GraphOf(4, BothWays({<< 0, 1 >>, << 1, 2 >>, << 2, 3 >>, << 0, 3 >>}))
UPath5 == GraphOf(5, BothWays({<< 0, 1 >>, << 1, 2 >>, << 2, 3 >>, << 3, 4 >>}))
\* more vertices than one chunk of BUStep's loop: the undirected edges
\* 0-1, 1-2 and 1-ChunkSize, every other vertex isolated
TwoChunks ==
  GraphOf(ChunkSize + 1, BothWays({<< 0, 1 >>, << 1, 2 >>, << 1, ChunkSize >>}))

\* an undirected graph with levels {0}, {1,2}, {3}, {4}, {5,6} from source 0
\* and 16 arcs: with the default alpha a bottom-up block, a top-down step
\* and a second bottom-up block follow each other
Levels7 ==
  GraphOf(7, BothWays({<< 0, 1 >>, << 0, 2 >>, << 1, 2 >>, << 1, 3 >>, << 2, 3 >>,
                       << 3, 4 >>, << 4, 5 >>, << 4, 6 >>}))
\* the same graph with one more vertex, 7, and the one-way arc 7->3
Levels8 ==
  GraphOf(8, BothWays({<< 0, 1 >>, << 0, 2 >>, << 1, 2 >>, << 1, 3 >>, << 2, 3 >>,
                       << 3, 4 >>, << 4, 5 >>, << 4, 6 >>}) \cup {<< 7, 3 >>})

ScenarioGraphs ==
  {Path4, Star6, Single1, Triangle3, TwoParts6, Diamond4, Cross4, Cycle4, UPath5,
   TwoChunks, Levels7, Levels8}

Graphs == EnumGraphs \cup EnumSymGraphs \cup ScenarioGraphs

Vertices(gr) == 0..(gr.n - 1)
\* the sources a caller passes
Sources(gr) == {u \in Vertices(gr) : u < MaxSource}
num_nodes(gr) == gr.n
Neigh(gr, u) == gr.adj[u]
out_degree(gr, u) == Len(gr.adj[u])

\* the sum of the out-degrees of the vertices lo..hi-1
RECURSIVE SumDeg(_, _, _)
SumDeg(gr, lo, hi) ==
  IF hi <= lo THEN 0
  ELSE IF hi = lo + 1 THEN out_degree(gr, lo)
  ELSE LET mid == (lo + hi) \div 2
       IN SumDeg(gr, lo, mid) + SumDeg(gr, mid, hi)
num_edges_directed(gr) == SumDeg(gr, 0, gr.n)

HasArc(gr, u, v) == \E i \in 1..Len(gr.adj[u]) : gr.adj[u][i] = v
\* every arc has its reverse
Symmetric(gr) ==
  \A u \in Vertices(gr) : \A k \in 1..Len(gr.adj[u]) : HasArc(gr, gr.adj[u][k], u)

\* --------------------------------------------------------------- arithmetic
\* C++ integer division truncates toward zero
TruncDiv(a, b) == IF a >= 0 THEN a \div b ELSE -((-a) \div b)

RECURSIVE SumOver(_, _)
SumOver(f, S) ==
  IF S = {} THEN 0
  ELSE LET x == CHOOSE y \in S : TRUE IN f[x] + SumOver(f, S \ {x})

\* --------------------------------------------------------------- InitParent
InitParentNoSentinel(gr) == [u \in Vertices(gr) |-> -out_degree(gr, u)]

InitParent(gr) ==
  [u \in Vertices(gr) |-> IF out_degree(gr, u) # 0 THEN -out_degree(gr, u) ELSE -1]

\* ------------------------------------------------------------------- state
VARIABLES
  g, source, alpha, beta,        \* DOBFS's arguments
  parent,                        \* pvector<NodeId> parent
  queue,                         \* SlidingQueue: the shared array, shared_in = Len(queue)
  shared_out_start,              \* SlidingQueue: begin() of the window
  shared_out_end,                \* SlidingQueue: end() of the window
  front, curr,                   \* the two Bitmaps (sets of the bits that are set)
  edges_to_check, scout_count,
  awake_count, old_awake_count,
  pc,                            \* position of the controller in DOBFS / main
  td_todo,                       \* TDStep: window indices no worker has taken yet
  bu_next,                       \* BUStep: first vertex of the next chunk to hand out
  wk,                            \* per worker: loop position, locals, QueueBuffer
  visited,                       \* history: vertices the traversal has claimed
  td_calls, bu_calls,            \* history: TDStep and BUStep calls so far
  ncorrupt,                      \* history: cells of the result overwritten
  calls,                         \* history: DOBFS calls on this graph and source
  first,                         \* history: the parent array the first call returned
  first_run,                     \* history: alpha, beta and rounds of the first call
  step_parent,                   \* history: parent when the current step began
  step_front,                    \* history: front when the current BUStep began
  last_found,                    \* history: vertices the previous round discovered
  trace,                         \* history: the rounds of this call, in order
  verdict                        \* BFSVerifier's return value

vars == << g, source, alpha, beta, parent, queue, shared_out_start, shared_out_end,
           front, curr, edges_to_check, scout_count, awake_count, old_awake_count,
           pc, td_todo, bu_next, wk, visited, td_calls, bu_calls, ncorrupt, calls,
           first, first_run, step_parent, step_front, last_found, trace, verdict >>

args == << g, source, alpha, beta >>
callhist == << calls, first, first_run >>
hist == << step_parent, step_front, last_found, trace >>

IdleWorker == [st |-> "idle", u |-> -1, i |-> 0, cv |-> 0, hi |-> 0,
               lq |-> << >>, sc |-> 0, word |-> {}]

\* SlidingQueue
QueueEmpty == shared_out_start = shared_out_end
QueueSize == shared_out_end - shared_out_start

\* the indices of the window begin()..end()
WholeQueue == 1..shared_out_end

Window == (shared_out_start + 1)..shared_out_end

\* DOBFS up to the loop: InitParent, parent[source] = source, the queue
\* holding the source with its window slid, both bitmaps reset.
Init ==
  /\ g \in Graphs
  /\ source \in Sources(g)
  /\ alpha \in Alphas
  /\ beta \in Betas
  /\ parent = [InitParent(g) EXCEPT ![source] = source]
  /\ queue = << source >>
  /\ shared_out_start = 0
  /\ shared_out_end = 1
  /\ front = {}
  /\ curr = {}
  /\ edges_to_check = num_edges_directed(g)
  /\ scout_count = out_degree(g, source)
  /\ awake_count = 0
  /\ old_awake_count = 0
  /\ pc = "loop"
  /\ td_todo = {}
  /\ bu_next = 0
  /\ wk = [w \in Workers |-> IdleWorker]
  /\ visited = {source}
  /\ td_calls = 0
  /\ bu_calls = 0
  /\ ncorrupt = 0
  /\ calls = 1
  /\ first = << >>
  /\ first_run = << >>
  /\ step_parent = parent
  /\ step_front = {}
  /\ last_found = {source}
  /\ trace = << >>
  /\ verdict = "none"


\* the vertices claimed since the current step began
NewlyFound == {u \in Vertices(g) : parent[u] >= 0 /\ step_parent[u] < 0}

\* ------------------------------------------------------ frontier primitives
\* Bitmap::set_bit is a plain read-modify-write of the word that holds the bit
WordOf(u) == u \div BitsPerWord
WordBits(bm, u) == {x \in bm : WordOf(x) = WordOf(u)}

\* QueueToBitmap: set_bit_atomic of every vertex of the window; the atomic
\* ORs commute, so the parallel loop has one outcome
QueueToBitmap(bm) == bm \cup {queue[k] : k \in Window}

\* BitmapToQueue: every worker collects the set bits of its share of
\* 0..n-1 in ascending order and the workers flush in any order, so the
\* appended batch is a concatenation of at most NumWorkers ascending runs
Descents(s) == Cardinality({k \in 1..(Len(s) - 1) : s[k] > s[k + 1]})
BatchOrders(S) ==
  {s \in [1..Cardinality(S) -> S] :
     /\ \A a, b \in 1..Cardinality(S) : a # b => s[a] # s[b]
     /\ Descents(s) <= NumWorkers - 1}

\* history counters saturate here; no traversal of these graphs needs more
RoundCap == 12
Bump(c) == IF c < RoundCap THEN c + 1 ELSE c
\* the record of a round is added to the history of the call
Log(round) == IF Len(trace) < RoundCap THEN Append(trace, round) ELSE trace

\* --------------------------------------------------------- DOBFS controller
\* while (!queue.empty()) fails: return parent
LoopExit ==
  /\ pc = "loop"
  /\ QueueEmpty
  /\ pc' = "done"
  /\ UNCHANGED << args, callhist, hist,
                  parent, queue, shared_out_start, shared_out_end, front, curr,
                  edges_to_check, scout_count, awake_count, old_awake_count,
                  td_todo, bu_next, wk, visited, td_calls, bu_calls, ncorrupt, verdict >>

\* if (scout_count > edges_to_check / alpha)
BottomUpEligibleGe == scout_count >= TruncDiv(edges_to_check, alpha)

BottomUpEligible == scout_count > TruncDiv(edges_to_check, alpha)

\* the bottom-up branch up to the do: QueueToBitmap(queue, front),
\* awake_count = queue.size(), queue.slide_window()
EnterBottomUp ==
  /\ pc = "loop"
  /\ ~QueueEmpty
  /\ BottomUpEligible
  /\ front' = QueueToBitmap(front)
  /\ awake_count' = QueueSize
  /\ shared_out_start' = shared_out_end
  /\ shared_out_end' = Len(queue)
  /\ pc' = "bu_head"
  /\ UNCHANGED << args, callhist, hist,
                  parent, queue, curr, edges_to_check, scout_count,
                  old_awake_count, td_todo, bu_next, wk, visited, td_calls,
                  bu_calls, ncorrupt, verdict >>

\* the top-down branch up to TDStep's parallel region:
\* edges_to_check -= scout_count, the workers start with empty QueueBuffers
EnterTopDown ==
  /\ pc = "loop"
  /\ ~QueueEmpty
  /\ ~BottomUpEligible
  /\ edges_to_check' = edges_to_check - scout_count
  /\ td_todo' = Window
  /\ wk' = [w \in Workers |-> IdleWorker]
  /\ pc' = "td"
  /\ step_parent' = parent
  /\ UNCHANGED << step_front, last_found, trace >>
  /\ UNCHANGED << args, callhist,
                  parent, queue, shared_out_start, shared_out_end, front, curr,
                  scout_count, awake_count, old_awake_count, bu_next, visited,
                  td_calls, bu_calls, ncorrupt, verdict >>

\* ------------------------------------------------------------------- TDStep
\* a worker leaves neighbour i of its frontier vertex and moves to the next
\* one, or to the end of this iteration of the omp for
TDAdvance(r) ==
  IF r.i < Len(Neigh(g, r.u))
  THEN [r EXCEPT !.st = "read", !.i = r.i + 1, !.cv = 0]
  ELSE [r EXCEPT !.st = "idle", !.u = -1, !.i = 0, !.cv = 0]

\* a worker takes an iteration of the omp for (the schedule is the
\* implementation's: any worker may get any iteration): NodeId u = *q_iter
TDTake(w) ==
  /\ pc = "td"
  /\ wk[w].st = "idle"
  /\ \E k \in td_todo :
       /\ td_todo' = td_todo \ {k}
       /\ wk' = [wk EXCEPT ![w] =
                   IF Len(Neigh(g, queue[k])) = 0 THEN @
                   ELSE [@ EXCEPT !.st = "read", !.u = queue[k], !.i = 1, !.cv = 0]]
  /\ UNCHANGED << args, callhist, hist,
                  parent, queue, shared_out_start, shared_out_end, front, curr,
                  edges_to_check, scout_count, awake_count, old_awake_count, pc,
                  bu_next, visited, td_calls, bu_calls, ncorrupt, verdict >>

\* NodeId curr_val = parent[v]; if (curr_val < 0)
TDRead(w) ==
  /\ pc = "td"
  /\ wk[w].st = "read"
  /\ LET r == wk[w]
         v == Neigh(g, r.u)[r.i]
     IN wk' = [wk EXCEPT ![w] =
                 IF parent[v] < 0 THEN [r EXCEPT !.st = "cas", !.cv = parent[v]]
                 ELSE TDAdvance(r)]
  /\ UNCHANGED << args, callhist, hist,
                  parent, queue, shared_out_start, shared_out_end, front, curr,
                  edges_to_check, scout_count, awake_count, old_awake_count, pc,
                  td_todo, bu_next, visited, td_calls, bu_calls, ncorrupt, verdict >>

\* compare_and_swap(parent[v], curr_val, u) stores u iff the cell still
\* holds curr_val
StoreAlways(cell, expected) == TRUE

CasSucceeds(cell, expected) == cell = expected

\* if (compare_and_swap(parent[v], curr_val, u)) { lqueue.push_back(v);
\* scout_count += -curr_val; }
TDCas(w) ==
  /\ pc = "td"
  /\ wk[w].st = "cas"
  /\ LET r == wk[w]
         v == Neigh(g, r.u)[r.i]
     IN IF CasSucceeds(parent[v], r.cv)
        THEN /\ parent' = [parent EXCEPT ![v] = r.u]
             /\ visited' = visited \cup {v}
             /\ wk' = [wk EXCEPT ![w] =
                         TDAdvance([r EXCEPT !.lq = Append(r.lq, v), !.sc = r.sc - r.cv])]
        ELSE /\ wk' = [wk EXCEPT ![w] = TDAdvance(r)]
             /\ UNCHANGED << parent, visited >>
  /\ UNCHANGED << args, callhist, hist,
                  queue, shared_out_start, shared_out_end, front, curr,
                  edges_to_check, scout_count, awake_count, old_awake_count, pc,
                  td_todo, bu_next, td_calls, bu_calls, ncorrupt, verdict >>

\* the barrier that ends the omp for
TDLoopDone == td_todo = {} /\ \A w \in Workers : wk[w].st \in {"idle", "flushed"}

\* lqueue.flush(): the buffer is copied to the end of the shared queue
TDFlush(w) ==
  /\ pc = "td"
  /\ TDLoopDone
  /\ wk[w].st = "idle"
  /\ queue' = queue \o wk[w].lq
  /\ wk' = [wk EXCEPT ![w] = [@ EXCEPT !.st = "flushed", !.lq = << >>]]
  /\ UNCHANGED << args, callhist, hist,
                  parent, shared_out_start, shared_out_end, front, curr,
                  edges_to_check, scout_count, awake_count, old_awake_count, pc,
                  td_todo, bu_next, visited, td_calls, bu_calls, ncorrupt, verdict >>

\* the end of the parallel region: the reduction's sum is returned,
\* scout_count = TDStep(...), queue.slide_window()
TDStepEnd ==
  /\ pc = "td"
  /\ \A w \in Workers : wk[w].st = "flushed"
  /\ scout_count' = SumOver([w \in Workers |-> wk[w].sc], Workers)
  /\ shared_out_start' = shared_out_end
  /\ shared_out_end' = Len(queue)
  /\ td_calls' = Bump(td_calls)
  /\ wk' = [w \in Workers |-> IdleWorker]
  /\ pc' = "loop"
  /\ last_found' = NewlyFound
  /\ trace' = Log([phase |-> "td", frontier |-> {queue[k] : k \in Window},
                   count |-> scout_count', edges_to_check |-> edges_to_check])
  /\ UNCHANGED << step_parent, step_front >>
  /\ UNCHANGED << args, callhist,
                  parent, queue, front, curr, edges_to_check, awake_count,
                  old_awake_count, td_todo, bu_next, visited, bu_calls, ncorrupt,
                  verdict >>


\* ------------------------------------------------------------------- BUStep
\* the top of the do loop and BUStep up to its parallel loop:
\* old_awake_count = awake_count, awake_count = 0 in every worker,
\* next.reset() (next is DOBFS's curr)
BUStepBegin ==
  /\ pc = "bu_head"
  /\ old_awake_count' = awake_count
  /\ curr' = {}
  /\ bu_next' = 0
  /\ wk' = [w \in Workers |-> IdleWorker]
  /\ pc' = "bu"
  /\ step_parent' = parent
  /\ step_front' = front
  /\ UNCHANGED << last_found, trace >>
  /\ UNCHANGED << args, callhist,
                  parent, queue, shared_out_start, shared_out_end, front,
                  edges_to_check, scout_count, awake_count, td_todo, visited,
                  td_calls, bu_calls, ncorrupt, verdict >>

\* schedule(dynamic, 1024): an idle worker is handed the next chunk of
\* consecutive vertex ids
BUTakeOne(w) ==
  /\ pc = "bu"
  /\ wk[w].st = "idle"
  /\ bu_next < num_nodes(g)
  /\ wk' = [wk EXCEPT ![w] = [@ EXCEPT !.st = "scan", !.u = bu_next, !.hi = bu_next + 1]]
  /\ bu_next' = bu_next + 1
  /\ UNCHANGED << args, callhist, hist,
                  parent, queue, shared_out_start, shared_out_end, front, curr,
                  edges_to_check, scout_count, awake_count, old_awake_count, pc,
                  td_todo, visited, td_calls, bu_calls, ncorrupt, verdict >>

BUTake(w) ==
  /\ pc = "bu"
  /\ wk[w].st = "idle"
  /\ bu_next < num_nodes(g)
  /\ wk' = [wk EXCEPT ![w] =
              [@ EXCEPT !.st = "scan", !.u = bu_next,
                        !.hi = IF bu_next + ChunkSize < num_nodes(g)
                               THEN bu_next + ChunkSize ELSE num_nodes(g)]]
  /\ bu_next' = bu_next + ChunkSize
  /\ UNCHANGED << args, callhist, hist,
                  parent, queue, shared_out_start, shared_out_end, front, curr,
                  edges_to_check, scout_count, awake_count, old_awake_count, pc,
                  td_todo, visited, td_calls, bu_calls, ncorrupt, verdict >>

\* ITERATE_NEIGHBOURHOOD(v, u, if (front.get_bit(v)) { ...; break; }):
\* the positions of u's neighbour list whose vertex is in the frontier
AllNeighbours(u) == 1..Len(Neigh(g, u))

FrontHits(u) == {k \in 1..Len(Neigh(g, u)) : Neigh(g, u)[k] \in front}
FirstHit(u) == CHOOSE k \in FrontHits(u) : \A m \in FrontHits(u) : k <= m

\* the vertices of lo..hi-1 whose iteration writes something
Awake(lo, hi) == {x \in lo..(hi - 1) : parent[x] < 0 /\ FrontHits(x) # {}}

\* a worker leaves vertex u of its chunk. The iterations that find
\* parent[x] >= 0 or no neighbour in front write nothing and read only
\* front and cells of the worker's own chunk, which no other worker writes
\* during the step, so the worker runs through them in the same step.
BUAdvance(r) ==
  IF Awake(r.u + 1, r.hi) # {}
  THEN [r EXCEPT !.st = "scan", !.word = {},
                 !.u = CHOOSE x \in Awake(r.u + 1, r.hi) :
                         \A y \in Awake(r.u + 1, r.hi) : x <= y]
  ELSE [r EXCEPT !.st = "idle", !.u = -1, !.hi = 0, !.word = {}]

\* one iteration of the loop for vertex u: if (parent[u] < 0) and a
\* neighbour v is in front: parent[u] = v, awake_count++, and set_bit(u)
\* reads the word of u's bit. No other worker touches parent[u] and front is
\* not written during the step, so the scan and the store are one step.
BUScan(w) ==
  /\ pc = "bu"
  /\ wk[w].st = "scan"
  /\ LET r == wk[w]
     IN IF parent[r.u] < 0 /\ FrontHits(r.u) # {}
        THEN /\ parent' = [parent EXCEPT ![r.u] = Neigh(g, r.u)[FirstHit(r.u)]]
             /\ visited' = visited \cup {r.u}
             /\ wk' = [wk EXCEPT ![w] =
                         [r EXCEPT !.st = "setbit", !.sc = r.sc + 1,
                                   !.word = WordBits(curr, r.u)]]
        ELSE /\ wk' = [wk EXCEPT ![w] = BUAdvance(r)]
             /\ UNCHANGED << parent, visited >>
  /\ UNCHANGED << args, callhist, hist,
                  queue, shared_out_start, shared_out_end, front, curr,
                  edges_to_check, scout_count, awake_count, old_awake_count, pc,
                  td_todo, bu_next, td_calls, bu_calls, ncorrupt, verdict >>

\* next.set_bit(u) writes the word back with u's bit set; break
BUSetBit(w) ==
  /\ pc = "bu"
  /\ wk[w].st = "setbit"
  /\ LET r == wk[w]
     IN /\ curr' = (curr \ WordBits(curr, r.u)) \cup r.word \cup {r.u}
        /\ wk' = [wk EXCEPT ![w] = BUAdvance(r)]
  /\ UNCHANGED << args, callhist, hist,
                  parent, queue, shared_out_start, shared_out_end, front,
                  edges_to_check, scout_count, awake_count, old_awake_count, pc,
                  td_todo, bu_next, visited, td_calls, bu_calls, ncorrupt, verdict >>

\* while ((awake_count >= old_awake_count) || (awake_count > g.num_nodes() / beta))
BUAgainGe(awake, old) == awake >= old \/ awake >= TruncDiv(num_nodes(g), beta)

BUAgain(awake, old) == awake >= old \/ awake > TruncDiv(num_nodes(g), beta)

\* the end of BUStep's parallel loop and the bottom of the do loop:
\* awake_count = BUStep(...) (the reduction's sum), front.swap(curr), and
\* the loop test
BUStepEnd ==
  /\ pc = "bu"
  /\ bu_next >= num_nodes(g)
  /\ \A w \in Workers : wk[w].st = "idle"
  /\ LET awake == SumOver([w \in Workers |-> wk[w].sc], Workers)
     IN /\ awake_count' = awake
        /\ pc' = IF BUAgain(awake, old_awake_count) THEN "bu_head" ELSE "b2q"
  /\ front' = curr
  /\ curr' = front
  /\ bu_calls' = Bump(bu_calls)
  /\ wk' = [w \in Workers |-> IdleWorker]
  /\ last_found' = NewlyFound
  /\ trace' = Log([phase |-> "bu", frontier |-> step_front,
                   count |-> awake_count', edges_to_check |-> edges_to_check])
  /\ UNCHANGED << step_parent, step_front >>
  /\ UNCHANGED << args, callhist,
                  parent, queue, shared_out_start, shared_out_end,
                  edges_to_check, scout_count, old_awake_count, td_todo, bu_next,
                  visited, td_calls, ncorrupt, verdict >>

\* BitmapToQueue(g, front, queue) with its queue.slide_window(), then
\* scout_count = 1
BitmapToQueue ==
  /\ pc = "b2q"
  /\ \E batch \in BatchOrders(front) : queue' = queue \o batch
  /\ shared_out_start' = shared_out_end
  /\ shared_out_end' = Len(queue')
  /\ scout_count' = 1
  /\ pc' = "loop"
  /\ UNCHANGED << args, callhist, hist,
                  parent, front, curr, edges_to_check, awake_count,
                  old_awake_count, td_todo, bu_next, wk, visited, td_calls,
                  bu_calls, ncorrupt, verdict >>


\* -------------------------------------------------------------- BFSVerifier
\* the serial BFS: for every v of ITERATE_NEIGHBOURHOOD(v, u), in order,
\* if (depth[v] == -1) { depth[v] = depth[u] + 1; to_visit.push_back(v); }
RECURSIVE VisitNeighbours(_, _, _, _)
VisitNeighbours(gr, u, k, s) ==
  IF k > Len(Neigh(gr, u)) THEN s
  ELSE LET v == Neigh(gr, u)[k]
       IN VisitNeighbours(gr, u, k + 1,
            IF s.depth[v] = -1
            THEN [depth |-> [s.depth EXCEPT ![v] = s.depth[u] + 1],
                  to_visit |-> Append(s.to_visit, v)]
            ELSE s)

\* for (auto it = to_visit.begin(); it != to_visit.end(); it++)
RECURSIVE SerialBFS(_, _, _)
SerialBFS(gr, it, s) ==
  IF it > Len(s.to_visit) THEN s
  ELSE SerialBFS(gr, it + 1, VisitNeighbours(gr, s.to_visit[it], 1, s))

\* pvector<int> depth(g.num_nodes(), -1) after the serial BFS from src
Depth(gr, src) ==
  SerialBFS(gr, 1, [depth |-> [[u \in Vertices(gr) |-> -1] EXCEPT ![src] = 0],
                    to_visit |-> << src >>]).depth

\* the first position of u's neighbour list that holds par[u], 0 if none
ParentMatches(gr, u, par) == {k \in 1..Len(Neigh(gr, u)) : Neigh(gr, u)[k] = par[u]}
FirstMatch(gr, u, par) ==
  IF ParentMatches(gr, u, par) = {} THEN 0
  ELSE CHOOSE k \in ParentMatches(gr, u, par) : \A m \in ParentMatches(gr, u, par) : k <= m

\* the body of the verifier's loop for vertex u: "ok", or the message of
\* the return false it takes
VerifyVertex(gr, src, par, depth, u) ==
  IF depth[u] # -1 /\ par[u] # -1
  THEN IF u = src
       THEN IF ~(par[u] = u /\ depth[u] = 0) THEN "Source wrong" ELSE "ok"
       ELSE LET k == FirstMatch(gr, u, par)
            IN IF k = 0 THEN "Couldn't find edge"
               ELSE IF depth[Neigh(gr, u)[k]] # depth[u] - 1 THEN "Wrong depths"
               ELSE "ok"
  ELSE IF depth[u] # par[u] THEN "Reachability mismatch" ELSE "ok"

\* bool BFSVerifier(g, source, parent)
BFSVerifier(gr, src, par) ==
  LET depth == Depth(gr, src)
  IN \A u \in Vertices(gr) : VerifyVertex(gr, src, par, depth, u) = "ok"

\* main: BenchmarkKernelLegacy hands DOBFS's result to VerifierBound
Verify ==
  /\ pc = "done"
  /\ verdict' = BFSVerifier(g, source, parent)
  /\ pc' = "verified"
  /\ UNCHANGED << args, callhist, hist,
                  parent, queue, shared_out_start, shared_out_end, front, curr,
                  edges_to_check, scout_count, awake_count, old_awake_count,
                  td_todo, bu_next, wk, visited, td_calls, bu_calls, ncorrupt >>

\* the values a cell of a candidate parent array may hold
CellValues(gr) == {x \in (0 - 2)..(gr.n - 1) : x < MaxCell}

\* a caller of BFSVerifier hands it another array: the traversal's result
\* with one more cell overwritten
Corrupt ==
  /\ pc = "done"
  /\ ncorrupt < MaxCorrupt
  /\ \E u \in Vertices(g), val \in CellValues(g) :
       /\ u < MaxCell
       /\ val # parent[u]
       /\ parent' = [parent EXCEPT ![u] = val]
  /\ ncorrupt' = ncorrupt + 1
  /\ UNCHANGED << args, callhist, hist,
                  queue, shared_out_start, shared_out_end, front, curr,
                  edges_to_check, scout_count, awake_count, old_awake_count, pc,
                  td_todo, bu_next, wk, visited, td_calls, bu_calls, verdict >>

\* the caller keeps the returned array and calls DOBFS(g, source, a, b)
\* again: DOBFS up to its loop, as in Init
CallAgain ==
  /\ pc = "done"
  /\ calls = 1
  /\ ncorrupt = 0
  /\ first' = parent
  /\ first_run' = [alpha |-> alpha, beta |-> beta, trace |-> trace]
  /\ calls' = 2
  /\ \E a \in Alphas, b \in Betas : alpha' = a /\ beta' = b
  /\ parent' = [InitParent(g) EXCEPT ![source] = source]
  /\ queue' = << source >>
  /\ shared_out_start' = 0
  /\ shared_out_end' = 1
  /\ front' = {}
  /\ curr' = {}
  /\ edges_to_check' = num_edges_directed(g)
  /\ scout_count' = out_degree(g, source)
  /\ awake_count' = 0
  /\ old_awake_count' = 0
  /\ pc' = "loop"
  /\ td_todo' = {}
  /\ bu_next' = 0
  /\ wk' = [w \in Workers |-> IdleWorker]
  /\ visited' = {source}
  /\ td_calls' = 0
  /\ bu_calls' = 0
  /\ step_parent' = parent'
  /\ step_front' = {}
  /\ last_found' = {source}
  /\ trace' = << >>
  /\ UNCHANGED << g, source, ncorrupt, verdict >>

\* ----------------------------------------------------------- specifications
NextDOBFS ==
  \/ LoopExit
  \/ EnterBottomUp
  \/ EnterTopDown
  \/ \E w \in Workers : TDTake(w)
  \/ \E w \in Workers : TDRead(w)
  \/ \E w \in Workers : TDCas(w)
  \/ \E w \in Workers : TDFlush(w)
  \/ TDStepEnd
  \/ BUStepBegin
  \/ \E w \in Workers : BUTake(w)
  \/ \E w \in Workers : BUScan(w)
  \/ \E w \in Workers : BUSetBit(w)
  \/ BUStepEnd
  \/ BitmapToQueue

Next == NextDOBFS \/ Verify

\* DOBFS from every graph, source, alpha and beta, then the verifier on its
\* result
Spec == Init /\ [][Next]_vars

\* one DOBFS call under fair scheduling: the OpenMP runtime keeps running
\* its threads, so some enabled step of the call is eventually taken
SpecFair == Init /\ [][NextDOBFS]_vars /\ WF_vars(NextDOBFS)

\* the verifier on candidate arrays that differ from a traversal's result
NextVerifier == Next \/ Corrupt
SpecVerifier == Init /\ [][NextVerifier]_vars

\* two DOBFS calls on the same graph and source, the second with any alpha
\* and beta
NextTwoCalls == NextDOBFS \/ CallAgain
SpecTwoCalls == Init /\ [][NextTwoCalls]_vars

\* two DOBFS calls with the same arguments
CallAgainSame == CallAgain /\ alpha' = alpha /\ beta' = beta
NextSameCalls == NextDOBFS \/ CallAgainSame
SpecSameCalls == Init /\ [][NextSameCalls]_vars


\* ------------------------------------------------------------------- claims
\* DOBFS has returned and its result is untouched
Returned == pc \in {"done", "verified"} /\ ncorrupt = 0

\* the vertices the independent serial BFS reaches from the source
Reachable ==
  LET dep == Depth(g, source) IN {u \in Vertices(g) : dep[u] # -1}

\* C1 (forest validity): when DOBFS returns, parent[source] = source and
\* every reachable u # source has a parent p with an arc p -> u and
\* depth(u) = depth(p) + 1, depth being the serial BFS's.
C1_ForestValidity ==
  Returned =>
    /\ parent[source] = source
    /\ \A u \in Reachable \ {source} :
         /\ parent[u] \in Vertices(g)
         /\ HasArc(g, parent[u], u)
         /\ Depth(g, source)[u] = Depth(g, source)[parent[u]] + 1

\* C2 (completeness): DOBFS never writes the parent cell of a vertex the
\* source does not reach, so the cell keeps its InitParent value, and when
\* DOBFS returns every reachable vertex has parent[u] >= 0.
C2_Completeness ==
  /\ \A u \in Vertices(g) \ Reachable : parent[u] = InitParent(g)[u]
  /\ Returned => \A u \in Reachable : parent[u] >= 0

\* C3 (write-once): no step of the traversal changes a parent cell that
\* holds a non-negative value; a worker that lost the race for v leaves
\* parent[v] alone.
C3_WriteOnce ==
  [][\A u \in Vertices(g) : parent[u] >= 0 => parent'[u] = parent[u]]_vars

\* a worker of TDStep read parent[v] < 0, another worker claimed v since,
\* and the first worker's compare-and-swap is still to come
C3_Witness ==
  \E w \in Workers :
    /\ pc = "td"
    /\ wk[w].st = "cas"
    /\ parent[Neigh(g, wk[w].u)[wk[w].i]] >= 0
    /\ parent[Neigh(g, wk[w].u)[wk[w].i]] # wk[w].u


\* C4 (termination): under fair scheduling every execution of DOBFS reaches
\* the empty frontier queue and returns.
C4_Termination == <>(pc = "done")

\* DOBFS, called with the default alpha and beta, has returned after the
\* inner do-while loop ran more than once
C4_Witness ==
  pc = "done" /\ alpha = DefaultAlpha /\ beta = DefaultBeta /\ bu_calls >= 2

\* C5 (the verifier accepts the traversal's own output): for every graph
\* and source, BFSVerifier(g, source, DOBFS(g, source)) returns true.
C5_VerifierAcceptsResult == (pc = "verified" /\ ncorrupt = 0) => verdict = TRUE

\* the number of parent links from u back to the source, -1 when the chain
\* does not lead there
RECURSIVE ChainLen(_, _, _)
ChainLen(par, u, fuel) ==
  IF u = source THEN 0
  ELSE IF fuel = 0 \/ par[u] \notin Vertices(g) THEN -1
  ELSE LET d == ChainLen(par, par[u], fuel - 1)
       IN IF d = -1 THEN -1 ELSE d + 1

DiscoveredIn(par) == {u \in Vertices(g) : par[u] >= 0}

\* C6 (heuristic independence): two DOBFS calls on the same graph and
\* source, with any alpha and beta each, discover the same set of vertices,
\* and every discovered vertex has the same depth along its parent chain
\* in both results.
C6_HeuristicIndependence ==
  (pc = "done" /\ calls = 2) =>
    /\ DiscoveredIn(parent) = DiscoveredIn(first)
    /\ \A u \in DiscoveredIn(parent) :
         ChainLen(parent, u, num_nodes(g)) = ChainLen(first, u, num_nodes(g))

\* C7 (directed scenarios): with the default alpha and beta and source 0,
\* the directed path 0->1->2->3 yields parent = [0,0,1,2] and the directed
\* star 0->1..0->5 yields parent[i] = 0 for i = 0..5.
C7_DirectedScenarios ==
  (Returned /\ source = 0 /\ alpha = DefaultAlpha /\ beta = DefaultBeta) =>
    /\ g = Path4 => parent = [u \in 0..3 |-> IF u = 0 THEN 0 ELSE u - 1]
    /\ g = Star6 => parent = [u \in 0..5 |-> 0]

\* the three conditions of a valid result on a candidate array
ValidForest(par) ==
  /\ par[source] = source
  /\ \A u \in Reachable \ {source} :
       /\ par[u] \in Vertices(g)
       /\ HasArc(g, par[u], u)
       /\ Depth(g, source)[par[u]] = Depth(g, source)[u] - 1
  /\ \A u \in Vertices(g) \ Reachable : par[u] = -1

\* C8 (verifier soundness): BFSVerifier returns true only if
\* parent[source] = source, every reachable u # source has an arc from
\* parent[u] to u with depth[parent[u]] = depth[u] - 1, and every
\* unreachable vertex holds -1.
C8_VerifierSound == (pc = "verified" /\ verdict = TRUE) => ValidForest(parent)

\* the largest depth the serial BFS assigns
MaxDepth ==
  CHOOSE d \in 0..num_nodes(g) :
    /\ \E u \in Reachable : Depth(g, source)[u] = d
    /\ \A u \in Reachable : Depth(g, source)[u] <= d

\* C9 (round bound): the TDStep calls plus the BUStep calls of one DOBFS
\* call are at most the largest BFS depth reachable from the source, plus one.
C9_RoundBound == Returned => td_calls + bu_calls <= MaxDepth + 1

TDStepOver == pc = "td" /\ \A w \in Workers : wk[w].st = "flushed"

\* the frontier of the current TDStep and what the step has appended
TDFrontier == {queue[k] : k \in Window}
TDAppended == {k \in 1..Len(queue) : k > shared_out_end}

\* the vertices that were unvisited when the step began and are neighbours
\* of a frontier vertex
TDTargets ==
  {v \in Vertices(g) : step_parent[v] < 0 /\ \E u \in TDFrontier : HasArc(g, u, v)}

\* C11 (single claim per vertex): when a TDStep ends, every vertex that was
\* an unvisited neighbour of a frontier vertex has been claimed by one of
\* them, it was appended to the next frontier exactly once and nothing else
\* was, and scout_count holds its encoded degree exactly once.
C11_SingleClaim ==
  TDStepOver =>
    /\ \A v \in TDTargets :
         /\ parent[v] \in TDFrontier
         /\ HasArc(g, parent[v], v)
         /\ Cardinality({k \in TDAppended : queue[k] = v}) = 1
    /\ \A k \in TDAppended : queue[k] \in TDTargets
    /\ SumOver([w \in Workers |-> wk[w].sc], Workers)
         = SumOver([v \in TDTargets |-> -step_parent[v]], TDTargets)

\* two workers read parent[v] < 0 for the same v from different frontier
\* vertices; one has claimed v and buffered it, the other's compare-and-swap
\* is still to come
C11_Witness ==
  \E w1, w2 \in Workers :
    /\ w1 # w2
    /\ pc = "td"
    /\ wk[w1].st = "cas"
    /\ wk[w1].cv = step_parent[Neigh(g, wk[w1].u)[wk[w1].i]]
    /\ parent[Neigh(g, wk[w1].u)[wk[w1].i]] # wk[w1].u
    /\ parent[Neigh(g, wk[w1].u)[wk[w1].i]] >= 0
    /\ \E k \in 1..Len(wk[w2].lq) : wk[w2].lq[k] = Neigh(g, wk[w1].u)[wk[w1].i]

\* C12 (TDStep's return value): when a TDStep ends, the sum it returns is
\* the sum of out_degree(v) over the vertices v the step discovered.
C12_ScoutCountIsDegreeSum ==
  TDStepOver =>
    SumOver([w \in Workers |-> wk[w].sc], Workers)
      = SumOver([v \in NewlyFound |-> out_degree(g, v)], NewlyFound)


\* every chunk of BUStep's loop is done: the state BUStep returns in
BUStepOver ==
  pc = "bu" /\ bu_next >= num_nodes(g) /\ \A w \in Workers : wk[w].st = "idle"

\* the vertices that were unvisited when the step began and have a
\* neighbour whose bit is set in the input bitmap
BUTargets ==
  {u \in Vertices(g) :
     step_parent[u] < 0 /\ \E k \in 1..Len(Neigh(g, u)) : Neigh(g, u)[k] \in step_front}

\* C13 (bottom-up step result): when a BUStep ends, the vertices given a
\* parent in it are exactly the vertices unvisited at its start with a
\* neighbour in the input bitmap, each one's parent is such a neighbour, the
\* output bitmap holds exactly these vertices, the returned count is their
\* number, every other parent cell is as it was, and the input bitmap is
\* unchanged throughout the step.
C13_BUStepResult ==
  /\ pc = "bu" => front = step_front
  /\ BUStepOver =>
       /\ NewlyFound = BUTargets
       /\ \A u \in BUTargets : parent[u] \in step_front /\ HasArc(g, u, parent[u])
       /\ curr = BUTargets
       /\ SumOver([w \in Workers |-> wk[w].sc], Workers) = Cardinality(BUTargets)
       /\ \A u \in Vertices(g) \ BUTargets : parent[u] = step_parent[u]

\* a BUStep has ended in which each of the two workers discovered a vertex
\* of its own chunk, while a visited vertex kept its parent and an
\* unvisited vertex without a neighbour in the frontier stayed unvisited
C13_Witness ==
  /\ BUStepOver
  /\ \A w \in Workers : wk[w].sc >= 1
  /\ \E u \in Vertices(g) : parent[u] < 0
  /\ \E u \in Vertices(g) : step_parent[u] >= 0 /\ u # source


\* the workers of BUStep that hold a chunk, and the vertices of its chunk a
\* worker has still to visit
BUBusy == {w \in Workers : wk[w].st \in {"scan", "setbit"}}
BURest(w) == wk[w].u..(wk[w].hi - 1)

\* C20 (no lost bits): while a BUStep runs, no two workers hold vertices
\* whose bits lie in the same word of the output bitmap, and when the step
\* ends the bit of every vertex discovered in it is set in next.
C20_NoLostBits ==
  /\ pc = "bu" =>
       \A w1, w2 \in BUBusy :
         w1 # w2 => \A x \in BURest(w1), y \in BURest(w2) : WordOf(x) # WordOf(y)
  /\ BUStepOver => NewlyFound \subseteq curr

\* two workers are inside set_bit at once: each has read the word of its
\* vertex and neither has written it back
C20_Witness ==
  /\ pc = "bu"
  /\ \A w \in Workers : wk[w].st = "setbit"


\* the controller is at the top of its loop right after a bottom-up block
\* that left a non-empty frontier (scout_count was just reset to 1)
AfterBottomUpBlock ==
  /\ pc = "loop"
  /\ ~QueueEmpty
  /\ Len(trace) > 0
  /\ trace[Len(trace)].phase = "bu"

\* C14 (top-down after a bottom-up block): when the bottom-up block ends
\* with a non-empty frontier, the controller's next iteration takes the
\* top-down branch.
C14_TopDownAfterBottomUp == AfterBottomUpBlock => ~BottomUpEligible


\* C15 (zero-degree source): when out_degree(source) = 0, DOBFS starts with
\* scout_count = 0, never enters the bottom-up branch, finds the frontier
\* empty after its first TDStep, and returns after exactly one TDStep with
\* parent[source] = source and every other cell at its InitParent value.
C15_ZeroDegreeSource ==
  (out_degree(g, source) = 0 /\ ncorrupt = 0) =>
    /\ (pc = "loop" /\ td_calls = 0) => scout_count = 0
    /\ pc \notin {"bu_head", "bu", "b2q"}
    /\ bu_calls = 0
    /\ (pc = "loop" /\ td_calls = 1) => QueueEmpty
    /\ Returned =>
         /\ td_calls = 1
         /\ parent = [InitParent(g) EXCEPT ![source] = source]

\* DOBFS has returned from a source of out-degree 0 in a graph that has
\* arcs, one of them into the source
C15_Witness ==
  /\ pc = "done"
  /\ out_degree(g, source) = 0
  /\ td_calls = 1
  /\ \E u \in Vertices(g) : HasArc(g, u, source)


\* the second call was made with the alpha and beta of the first
SameArguments ==
  calls = 2 /\ alpha = first_run.alpha /\ beta = first_run.beta

\* C16 (interleaving independence): two executions of DOBFS on the same
\* graph, source, alpha and beta go through the same rounds: the same
\* phase, input frontier, returned scout_count or awake_count and
\* edges_to_check in every round, whatever the scheduling and whoever wins
\* the races.
C16_SameRounds ==
  SameArguments =>
    /\ Len(trace) <= Len(first_run.trace)
    /\ \A k \in 1..Len(trace) : trace[k] = first_run.trace[k]
    /\ pc = "done" => trace = first_run.trace

\* both calls have returned after a top-down and a bottom-up round, and the
\* races of the two calls were won differently: the parent arrays differ
C16_Witness ==
  /\ SameArguments
  /\ pc = "done"
  /\ parent # first
  /\ \E k \in 1..Len(trace) : trace[k].phase = "td"
  /\ \E k \in 1..Len(trace) : trace[k].phase = "bu"


\* the states a TDStep and a BUStep begin in
TDStepStart ==
  pc = "td" /\ td_todo = Window /\ \A w \in Workers : wk[w] = IdleWorker
BUStepStart ==
  pc = "bu" /\ bu_next = 0 /\ \A w \in Workers : wk[w] = IdleWorker

\* the frontier a step works on: the queue window of a TDStep, the vertices
\* of the previous round that are set in front of a BUStep
StepFrontier == IF pc = "td" THEN TDFrontier ELSE front \cap last_found

\* C17 (level-synchronous rounds): on a graph with a symmetric neighbour
\* relation, when round number d + 1 of a call begins (d rounds are over),
\* the frontier is exactly the set of vertices at BFS distance d from the
\* source, and the visited vertices are exactly those at distance <= d.
C17_LevelSynchronous ==
  (Symmetric(g) /\ (TDStepStart \/ BUStepStart)) =>
    LET dep == Depth(g, source)
        d == Len(trace)
    IN /\ StepFrontier = {u \in Vertices(g) : dep[u] = d}
       /\ \A u \in Vertices(g) : parent[u] >= 0 <=> (dep[u] # -1 /\ dep[u] <= d)

\* a BUStep begins on a symmetric graph after a bottom-up block and a
\* top-down step, with unvisited vertices left
C17_Witness ==
  /\ Symmetric(g)
  /\ BUStepStart
  /\ \E i, j \in 1..Len(trace) : i < j /\ trace[i].phase = "bu" /\ trace[j].phase = "td"
  /\ \E u \in Vertices(g) : parent[u] < 0 /\ Depth(g, source)[u] # -1


\* C18 (bounded frontier appends): the shared queue array holds every
\* append of the call (the source, TDStep's flushes, BitmapToQueue's); no
\* vertex occurs in it twice, so its length never exceeds num_nodes, the
\* capacity it was constructed with.
C18_BoundedAppends ==
  /\ Len(queue) <= num_nodes(g)
  /\ \A i, j \in 1..Len(queue) : queue[i] = queue[j] => i = j

\* a call has returned in which BitmapToQueue appended a frontier, a later
\* TDStep appended its discoveries, and a vertex had two frontier
\* neighbours racing for it
C18_Witness ==
  /\ pc = "done"
  /\ Len(queue) >= 3
  /\ \E i, j \in 1..Len(trace) : i < j /\ trace[i].phase = "bu" /\ trace[j].phase = "td"
  /\ \E k \in 1..Len(trace) :
       /\ trace[k].phase = "td"
       /\ \E v \in Vertices(g) :
            Cardinality({u \in trace[k].frontier : HasArc(g, u, v)}) >= 2

\* the bits of front that are not of the current frontier
StaleBits == front \ last_found

\* C19 (stale frontier bits): when a BUStep begins, no unvisited vertex has
\* a stale vertex in its neighbour list, and when it ends every vertex it
\* discovered has a parent from the previous round's discoveries.
C19_StaleBitsHarmless ==
  /\ BUStepStart =>
       \A u \in Vertices(g) :
         parent[u] < 0 => \A k \in 1..Len(Neigh(g, u)) : Neigh(g, u)[k] \notin StaleBits
  /\ BUStepOver => \A u \in NewlyFound : parent[u] \in last_found

====
